---- MODULE Spec2Model ----
(***************************************************************************)
(* Model of braindecode/datasets/base.py: BaseDataset, WindowsDataset and  *)
(* BaseConcatDataset, with their description properties, indexing and      *)
(* split.                                                                  *)
(***************************************************************************)
EXTENDS Integers, Sequences, FiniteSets, TLC

VARIABLES
    dss,      \* the per-recording dataset objects, by object id (NoDs: not constructed)
    held,     \* the description row the caller holds from its last read
    concat,   \* the BaseConcatDataset under study (NoConcat: not constructed)
    result,   \* outcome of the last operation: [op, status, ...]
    edits     \* changes made so far to recordings and rows behind the datasets' back

vars == <<dss, held, concat, result, edits>>

----------------------------------------------------------------------------
(* Bounds and value domains *)

NumDs == 2
DsIds == 1..NumDs
MaxChildren == 3
MaxEdits == 2
GroupCounts == {1, 2}
GroupLens == {1, 2}
LeafIds == {1}

Sfreqs == {100, 250}
ChCounts == {1, 2}
TimeCounts == {1, 2}
EventCounts == {0, 1, 2}
Subjects == {1, 2}
ExtVals == {7}

FieldNames == {"subject", "age", "sfreq", "n_channels", "n_times"}
DerivedFields == {"sfreq", "n_channels"}
NoName == "None"

\* mne.io.Raw as the datasets use it: info['sfreq'], ch_names, times
RawObjects ==
    [sfreq : Sfreqs, n_channels : ChCounts, n_times : TimeCounts]

\* mne.Epochs as the datasets use it: info['sfreq'], ch_names, times, events
WindowsObjects ==
    [sfreq : Sfreqs, n_channels : ChCounts, n_times : TimeCounts,
     n_events : EventCounts]

----------------------------------------------------------------------------
(* pandas objects.  A Series is a function from its labels to values; a    *)
(* Python value handed to a description setter is [type, data].            *)

EmptyRow == [f \in {} |-> 0]

Series(row) == [type |-> "Series", data |-> row]
DataFrame(rows) == [type |-> "DataFrame", data |-> rows]

\* `name in series`
InRow(row, name) == name \in DOMAIN row

\* `series[name] = value`: overwrites the label or appends it, in place
SetItem(row, name, value) ==
    [g \in (DOMAIN row) \cup {name} |-> IF g = name THEN value ELSE row[g]]

\* what a caller holds after reading a description: the dataset's own row
\* object (live) or a detached copy of it
NoRef == [live |-> FALSE, ds |-> 0, copy |-> EmptyRow]
LiveRef(d) == [live |-> TRUE, ds |-> d, copy |-> EmptyRow]
CopyRef(d, row) == [live |-> FALSE, ds |-> d, copy |-> row]

NoDs == [cls |-> "none"]

----------------------------------------------------------------------------
(* BaseDataset *)

\* description.setter: type check, then the stored row is the object passed in
BaseSetDescription(ds, desc) ==
    IF desc.type # "Series"
    THEN [status |-> "TypeError", ds |-> ds]
    ELSE [status |-> "ok", ds |-> [ds EXCEPT !._description = desc.data]]

\* variant: the derived fields are filled in only when the row lacks them
BaseStampOnce(ds) ==
    [ds EXCEPT !._description =
        LET r1 == IF InRow(@, "sfreq") THEN @
                  ELSE SetItem(@, "sfreq", ds.raw.sfreq)
        IN  IF InRow(r1, "n_channels") THEN r1
            ELSE SetItem(r1, "n_channels", ds.raw.n_channels)]

\* body of the description property: writes the recording's sfreq and channel
\* count into the stored row
BaseStamp(ds) ==
    [ds EXCEPT !._description =
        SetItem(SetItem(ds._description, "sfreq", ds.raw.sfreq),
                "n_channels", ds.raw.n_channels)]

\* variant: the property returns a copy of the stored row
BaseReturnCopy(d, ds) == CopyRef(d, ds._description)

\* `return self._description`: the stored row itself
BaseReturn(d, ds) == LiveRef(d)

\* description property of dataset object d
BaseDescription(d, ds) ==
    [ds |-> BaseStamp(ds), ref |-> BaseReturn(d, BaseStamp(ds))]

\* variant: a missing target field leaves the target unset instead of raising
BaseInitLenient(d, raw, description, target_name) ==
    LET ds0 == [cls |-> "BaseDataset", raw |-> raw,
                _description |-> EmptyRow, target |-> << >>]
        set == BaseSetDescription(ds0, description)
        rd  == BaseDescription(d, set.ds)
    IN  IF set.status # "ok"
        THEN [status |-> "TypeError", ds |-> NoDs]
        ELSE IF target_name # NoName /\ InRow(rd.ds._description, target_name)
        THEN [status |-> "ok",
              ds |-> [rd.ds EXCEPT
                         !.target = <<rd.ds._description[target_name]>>]]
        ELSE [status |-> "ok", ds |-> set.ds]

\* __init__(raw, description, target_name) for a new object d
BaseInit(d, raw, description, target_name) ==
    LET ds0 == [cls |-> "BaseDataset", raw |-> raw,
                _description |-> EmptyRow, target |-> << >>]
        set == BaseSetDescription(ds0, description)
        rd  == BaseDescription(d, set.ds)
    IN  IF set.status # "ok"
        THEN [status |-> "TypeError", ds |-> NoDs]
        ELSE IF target_name = NoName
        THEN [status |-> "ok", ds |-> set.ds]
        ELSE IF InRow(rd.ds._description, target_name)
        THEN [status |-> "ok",
              ds |-> [rd.ds EXCEPT
                         !.target = <<rd.ds._description[target_name]>>]]
        ELSE [status |-> "ValueError", ds |-> NoDs]

\* variant: the length of the channel list
BaseLenChannels(ds) == ds.raw.n_channels

\* __len__
BaseLen(ds) == ds.raw.n_times

----------------------------------------------------------------------------
(* WindowsDataset *)

WindowsSetDescription(ds, desc) ==
    IF desc.type # "Series"
    THEN [status |-> "TypeError", ds |-> ds]
    ELSE [status |-> "ok", ds |-> [ds EXCEPT !._description = desc.data]]

WindowsStamp(ds) ==
    [ds EXCEPT !._description =
        SetItem(SetItem(ds._description, "sfreq", ds.windows.sfreq),
                "n_channels", ds.windows.n_channels)]

WindowsReturn(d, ds) == LiveRef(d)

WindowsDescription(d, ds) ==
    [ds |-> WindowsStamp(ds), ref |-> WindowsReturn(d, WindowsStamp(ds))]

WindowsInit(d, windows, description) ==
    LET ds0 == [cls |-> "WindowsDataset", windows |-> windows,
                _description |-> EmptyRow]
        set == WindowsSetDescription(ds0, description)
    IN  IF set.status # "ok"
        THEN [status |-> "TypeError", ds |-> NoDs]
        ELSE [status |-> "ok", ds |-> set.ds]

WindowsLen(ds) == ds.windows.n_events

----------------------------------------------------------------------------
(* Dispatch on the class of a per-recording dataset *)

\* hasattr(ds, 'raw')
HasRaw(ds) == ds.cls = "BaseDataset"

DsDescription(d, ds) ==
    IF HasRaw(ds) THEN BaseDescription(d, ds) ELSE WindowsDescription(d, ds)

DsSetDescription(ds, desc) ==
    IF HasRaw(ds) THEN BaseSetDescription(ds, desc)
    ELSE WindowsSetDescription(ds, desc)

DsLen(ds) == IF HasRaw(ds) THEN BaseLen(ds) ELSE WindowsLen(ds)

\* the recording a dataset holds (ds.raw or ds.windows)
Recording(ds) == IF HasRaw(ds) THEN ds.raw ELSE ds.windows

\* the row a reference denotes
Deref(ref, datasets) ==
    IF ref.live THEN datasets[ref.ds]._description ELSE ref.copy

\* __getitem__ of the two classes: the data at `index` of recording d and the
\* target (BaseDataset) or the window's metadata (WindowsDataset)
BaseGetItem(d, ds, index) == [x |-> <<d, index>>, y |-> ds.target]

WindowsGetItem(d, ds, index) == [x |-> <<d, index>>, y |-> <<index>>]

DsGetItem(d, ds, index) ==
    IF HasRaw(ds) THEN BaseGetItem(d, ds, index)
    ELSE WindowsGetItem(d, ds, index)

\* every dataset of `ids` after a read of its description
StampAll(datasets, ids) ==
    [d \in DOMAIN datasets |->
        IF d \in ids THEN DsDescription(d, datasets[d]).ds ELSE datasets[d]]

Range(seq) == { seq[k] : k \in DOMAIN seq }

----------------------------------------------------------------------------
(* torch.utils.data.ConcatDataset, the base class of BaseConcatDataset *)

RECURSIVE Cumsum(_)
Cumsum(lens) ==
    IF lens = << >> THEN << >>
    ELSE LET front == Cumsum(SubSeq(lens, 1, Len(lens) - 1))
         IN  Append(front,
                    lens[Len(lens)] +
                      (IF front = << >> THEN 0 ELSE front[Len(front)]))

\* bisect.bisect_right on a sorted list: the number of entries <= x
BisectRight(a, x) == Cardinality({ k \in DOMAIN a : a[k] <= x })

\* ConcatDataset.__init__: keeps the list and the running sums of the lengths
TorchConcatInit(list_of_ds, datasets) ==
    IF list_of_ds = << >>
    THEN [status |-> "AssertionError", datasets |-> << >>,
          cumulative_sizes |-> << >>]
    ELSE [status |-> "ok", datasets |-> list_of_ds,
          cumulative_sizes |->
              Cumsum([k \in DOMAIN list_of_ds |-> DsLen(datasets[list_of_ds[k]])])]

\* ConcatDataset.__len__
ConcatLen(c) == c.cumulative_sizes[Len(c.cumulative_sizes)]

\* ConcatDataset.__getitem__ for idx >= 0
ConcatGetItem(c, idx, datasets) ==
    LET dataset_idx == BisectRight(c.cumulative_sizes, idx)
        sample_idx == IF dataset_idx = 0 THEN idx
                      ELSE idx - c.cumulative_sizes[dataset_idx]
    IN  IF dataset_idx >= Len(c.datasets)
        THEN [status |-> "IndexError", child |-> 0, item |-> << >>]
        ELSE [status |-> "ok", child |-> dataset_idx,
              item |-> DsGetItem(c.datasets[dataset_idx + 1],
                                 datasets[c.datasets[dataset_idx + 1]],
                                 sample_idx)]

----------------------------------------------------------------------------
(* BaseConcatDataset.  A DataFrame is the sequence of its rows; a row that   *)
(* lacks a column's label holds NaN there.  Row labels are the positions     *)
(* 0, 1, ... (the children's Series carry no name).                          *)

NoConcat == [cls |-> "none"]

Columns(table) == UNION { DOMAIN table[k] : k \in DOMAIN table }

\* df[column] = value: the column of every row
SetColumn(table, column, value) ==
    [k \in DOMAIN table |-> SetItem(table[k], column, value)]

\* description.setter
ConcatSetDescription(c, new_desc) ==
    IF new_desc.type # "DataFrame"
    THEN [status |-> "TypeError", c |-> c]
    ELSE [status |-> "ok", c |-> [c EXCEPT !._description = new_desc.data]]

\* the DataFrame made of the rows of the datasets of a list
Stack(list_of_ds, datasets) ==
    DataFrame([k \in DOMAIN list_of_ds |-> datasets[list_of_ds[k]]._description])

\* second statement of __init__: the table made of one description read per
\* child (`after`: the datasets once read) goes through the setter
ConcatInitDescription(super, list_of_ds, after) ==
    LET set == ConcatSetDescription(
                  [cls |-> "BaseConcatDataset", datasets |-> super.datasets,
                   cumulative_sizes |-> super.cumulative_sizes,
                   _description |-> << >>],
                  Stack(list_of_ds, after))
    IN  [status |-> set.status, c |-> set.c, datasets |-> after]

\* __init__(list_of_ds): the base class's constructor, then the description
ConcatInit(list_of_ds, datasets) ==
    IF list_of_ds = << >>
    THEN [status |-> TorchConcatInit(list_of_ds, datasets).status,
          c |-> NoConcat, datasets |-> datasets]
    ELSE ConcatInitDescription(TorchConcatInit(list_of_ds, datasets),
                               list_of_ds,
                               StampAll(datasets, Range(list_of_ds)))

\* variant: the sampling rate is written into the table before the checks
ConcatDescriptionStampFirst(c, datasets) ==
    LET children == [k \in DOMAIN c.datasets |-> datasets[c.datasets[k]]]
        fs == [k \in DOMAIN children |-> Recording(children[k]).sfreq]
        n_channels == [k \in DOMAIN children |-> Recording(children[k]).n_channels]
        n_times == [k \in DOMAIN children |-> Recording(children[k]).n_times]
        c1 == [c EXCEPT !._description = SetColumn(@, "sfreq", fs[1])]
    IN  IF Cardinality(Range(fs)) > 1
        THEN [status |-> "ValueError: sampling rates", c |-> c1]
        ELSE IF Cardinality(Range(n_channels)) > 1
        THEN [status |-> "ValueError: number of channels", c |-> c1]
        ELSE IF Cardinality(Range(n_times)) > 1
        THEN [status |-> "ValueError: window lengths", c |-> c1]
        ELSE [status |-> "ok",
              c |-> [c1 EXCEPT !._description =
                        SetColumn(SetColumn(@, "n_channels", n_channels[1]),
                                  "n_times", n_times[1])]]

\* variant: the table is stacked again from the children on every read
ConcatDescriptionRestack(c, datasets) ==
    LET children == [k \in DOMAIN c.datasets |-> datasets[c.datasets[k]]]
        fs == [k \in DOMAIN children |-> Recording(children[k]).sfreq]
        n_channels == [k \in DOMAIN children |-> Recording(children[k]).n_channels]
        n_times == [k \in DOMAIN children |-> Recording(children[k]).n_times]
    IN  IF Cardinality(Range(fs)) > 1
        THEN [status |-> "ValueError: sampling rates", c |-> c]
        ELSE IF Cardinality(Range(n_channels)) > 1
        THEN [status |-> "ValueError: number of channels", c |-> c]
        ELSE IF Cardinality(Range(n_times)) > 1
        THEN [status |-> "ValueError: window lengths", c |-> c]
        ELSE [status |-> "ok",
              c |-> [c EXCEPT !._description =
                        SetColumn(SetColumn(SetColumn(
                            [k \in DOMAIN children |-> children[k]._description],
                            "sfreq", fs[1]),
                            "n_channels", n_channels[1]),
                            "n_times", n_times[1])]]

\* description property
ConcatDescription(c, datasets) ==
    LET children == [k \in DOMAIN c.datasets |-> datasets[c.datasets[k]]]
        all_raw == \A k \in DOMAIN children : HasRaw(children[k])
        fs == [k \in DOMAIN children |-> Recording(children[k]).sfreq]
        n_channels == [k \in DOMAIN children |-> Recording(children[k]).n_channels]
        n_times == [k \in DOMAIN children |-> Recording(children[k]).n_times]
    IN  IF ~all_raw /\ \E k \in DOMAIN children : HasRaw(children[k])
        THEN [status |-> "AttributeError", c |-> c]
        ELSE IF Cardinality(Range(fs)) > 1
        THEN [status |-> "ValueError: sampling rates", c |-> c]
        ELSE IF Cardinality(Range(n_channels)) > 1
        THEN [status |-> "ValueError: number of channels", c |-> c]
        ELSE IF Cardinality(Range(n_times)) > 1
        THEN [status |-> "ValueError: window lengths", c |-> c]
        ELSE [status |-> "ok",
              c |-> [c EXCEPT !._description =
                        SetColumn(SetColumn(SetColumn(@, "sfreq", fs[1]),
                                            "n_channels", n_channels[1]),
                                  "n_times", n_times[1])]]

\* the members of a finite set of numbers, in increasing order
RECURSIVE Ordered(_)
Ordered(S) ==
    IF S = {} THEN << >>
    ELSE LET m == CHOOSE x \in S : \A y \in S : x <= y
         IN  <<m>> \o Ordered(S \ {m})

\* variant: the groups hold the rows' positions counted from 1
GroupsOneBased(table, column) ==
    LET values == { table[k][column] :
                      k \in { j \in DOMAIN table : InRow(table[j], column) } }
    IN  [v \in values |->
            Ordered({ k \in DOMAIN table :
                          InRow(table[k], column) /\ table[k][column] = v })]

\* DataFrame.groupby(column).groups: value -> positions of the rows holding it
\* (rows with NaN in the column belong to no group)
Groups(table, column) ==
    LET values == { table[k][column] :
                      k \in { j \in DOMAIN table : InRow(table[j], column) } }
    IN  [v \in values |->
            Ordered({ k - 1 : k \in { j \in DOMAIN table :
                          InRow(table[j], column) /\ table[j][column] = v } })]

\* `[self.datasets[ds_ind] for ds_ind in ds_inds]` can be evaluated
ValidInds(c, ds_inds) == \A a \in DOMAIN ds_inds : ds_inds[a] < Len(c.datasets)

\* variant: the children are taken in increasing order of position, once each
SubsetOfSorted(c, ds_inds, datasets) ==
    IF ~ValidInds(c, ds_inds)
    THEN [status |-> "IndexError", c |-> NoConcat, datasets |-> datasets]
    ELSE ConcatInit([a \in DOMAIN Ordered(Range(ds_inds)) |->
                        c.datasets[Ordered(Range(ds_inds))[a] + 1]],
                    datasets)

\* variant: the positions are taken one too low (Python's -1 is the last child)
SubsetOfShifted(c, ds_inds, datasets) ==
    IF ~ValidInds(c, ds_inds)
    THEN [status |-> "IndexError", c |-> NoConcat, datasets |-> datasets]
    ELSE ConcatInit([a \in DOMAIN ds_inds |->
                        c.datasets[IF ds_inds[a] = 0 THEN Len(c.datasets)
                                   ELSE ds_inds[a]]],
                    datasets)

\* BaseConcatDataset([self.datasets[ds_ind] for ds_ind in ds_inds])
SubsetOf(c, ds_inds, datasets) ==
    IF ~ValidInds(c, ds_inds)
    THEN [status |-> "IndexError", c |-> NoConcat, datasets |-> datasets]
    ELSE ConcatInit([a \in DOMAIN ds_inds |-> c.datasets[ds_inds[a] + 1]],
                    datasets)

NoSplits == [l \in {} |-> NoConcat]

\* one entry of the dict comprehension of split: the subset `sub` built for
\* `label` joins the mapping; a failure ends the comprehension
AddSplit(acc, label, sub) ==
    IF sub.status # "ok"
    THEN [status |-> sub.status, splits |-> NoSplits, datasets |-> acc.datasets]
    ELSE [status |-> "ok",
          splits |-> [l \in (DOMAIN acc.splits) \cup {label} |->
                         IF l = label THEN sub.c ELSE acc.splits[l]],
          datasets |-> sub.datasets]

\* the dict comprehension of split over an ordered sequence of labelled index
\* lists: the subsets are built one after the other, each reading the
\* descriptions of its children
RECURSIVE BuildSplits(_, _, _, _)
BuildSplits(c, labels, split_ids, acc) ==
    IF labels = << >> \/ acc.status # "ok"
    THEN acc
    ELSE BuildSplits(c, Tail(labels), split_ids,
                     AddSplit(acc, Head(labels),
                              SubsetOf(c, split_ids[Head(labels)],
                                       acc.datasets)))

\* an optional argument: left at its default None, or given
NoProperty == [given |-> FALSE, value |-> ""]
NoIds == [given |-> FALSE, value |-> << >>]
Arg(v) == [given |-> TRUE, value |-> v]

\* the return statement of split: one subset per entry of split_ids (a
\* mapping label -> index list), built in the order `labels`; `c` is the
\* concatenation after the part of split that precedes
SplitReturn(c, b) ==
    [status |-> b.status, splits |-> b.splits, c |-> c, datasets |-> b.datasets]

SplitBuild(c, labels, ids, datasets) ==
    SplitReturn(c, BuildSplits(c, labels, ids,
                               [status |-> "ok", splits |-> NoSplits,
                                datasets |-> datasets]))

\* the branch of split that groups by a column of self.description (`rd`)
SplitByProperty(rd, some_property, datasets) ==
    IF rd.status # "ok"
    THEN [status |-> rd.status, splits |-> NoSplits,
          c |-> rd.c, datasets |-> datasets]
    ELSE IF some_property \notin Columns(rd.c._description)
    THEN [status |-> "KeyError", splits |-> NoSplits,
          c |-> rd.c, datasets |-> datasets]
    ELSE SplitBuild(rd.c,
                    Ordered({ rd.c._description[k][some_property] :
                                k \in { j \in DOMAIN rd.c._description :
                                          InRow(rd.c._description[j],
                                                some_property) } }),
                    Groups(rd.c._description, some_property), datasets)

\* split(some_property, split_ids)
ConcatSplit(c, some_property, split_ids, datasets) ==
    IF ~split_ids.given /\ ~some_property.given
    THEN [status |-> "ValueError", splits |-> NoSplits,
          c |-> c, datasets |-> datasets]
    ELSE IF ~split_ids.given
    THEN SplitByProperty(ConcatDescription(c, datasets), some_property.value,
                         datasets)
    ELSE SplitBuild(c, [a \in 1..Len(split_ids.value) |-> a - 1],
                    [p \in 0..(Len(split_ids.value) - 1) |->
                        split_ids.value[p + 1]],
                    datasets)

\* BaseConcatDataset(list_of_ds), its description, split(split_ids=
\* [[0], ..., [n-1]]), BaseConcatDataset of the groups' children in the order
\* of the labels, and the description of that
RoundTripRead(original, rd1, datasets) ==
    [status |-> rd1.status, original |-> original,
     rebuilt |-> IF rd1.status = "ok" THEN rd1.c._description ELSE << >>,
     datasets |-> datasets]

RoundTripEnd(original, c1) ==
    RoundTripRead(original, ConcatDescription(c1.c, c1.datasets), c1.datasets)

RoundTripRebuild(original, sp) ==
    IF sp.status # "ok"
    THEN [status |-> sp.status, original |-> original, rebuilt |-> << >>,
          datasets |-> sp.datasets]
    ELSE RoundTripEnd(original,
             ConcatInit([k \in 1..Cardinality(DOMAIN sp.splits) |->
                            sp.splits[k - 1].datasets[1]], sp.datasets))

RoundTripSplit(rd0, datasets) ==
    IF rd0.status # "ok"
    THEN [status |-> rd0.status, original |-> << >>, rebuilt |-> << >>,
          datasets |-> datasets]
    ELSE RoundTripRebuild(rd0.c._description,
             ConcatSplit(rd0.c, NoProperty,
                         Arg([k \in DOMAIN rd0.c.datasets |-> <<k - 1>>]),
                         datasets))

RoundTripStart(c0) ==
    RoundTripSplit(ConcatDescription(c0.c, c0.datasets), c0.datasets)

ConcatRoundTrip(list_of_ds, datasets) ==
    RoundTripStart(ConcatInit(list_of_ds, datasets))

----------------------------------------------------------------------------
(* Operations on one per-recording dataset *)

\* rows a caller passes as description
InputRows ==
    { [f \in S |-> IF f = "subject" THEN 1 ELSE 100] :
        S \in SUBSET {"subject", "sfreq"} }

InputDescriptions == { Series(r) : r \in InputRows } \cup { DataFrame(<< >>) }

TargetNames == FieldNames \cup {NoName}

LeafRaws == { r \in RawObjects : r.n_times = 1 }
LeafWindows == { w \in WindowsObjects : w.n_times = 1 /\ w.n_events = 1 }

ConstructBase(d, raw, description, target_name) ==
    \E r \in {BaseInit(d, raw, description, target_name)} :
        /\ dss[d].cls = "none"
        /\ dss' = IF r.status = "ok" THEN [dss EXCEPT ![d] = r.ds] ELSE dss
        /\ UNCHANGED held
        /\ result' = [op |-> "BaseDataset", ds |-> d, status |-> r.status,
                      raw |-> raw, description |-> description,
                      target_name |-> target_name, value |-> r.ds]
        /\ UNCHANGED concat

ConstructWindows(d, windows, description) ==
    \E r \in {WindowsInit(d, windows, description)} :
        /\ dss[d].cls = "none"
        /\ dss' = IF r.status = "ok" THEN [dss EXCEPT ![d] = r.ds] ELSE dss
        /\ UNCHANGED held
        /\ result' = [op |-> "WindowsDataset", ds |-> d, status |-> r.status,
                      description |-> description, value |-> r.ds]
        /\ UNCHANGED concat

\* row = ds.description
ReadDescription(d) ==
    /\ dss[d].cls # "none"
    /\ LET r == DsDescription(d, dss[d])
           after == [dss EXCEPT ![d] = r.ds]
       IN  /\ dss' = after
           /\ held' = r.ref
           /\ result' = [op |-> "description", ds |-> d, status |-> "ok",
                         before |-> dss[d]._description,
                         row |-> Deref(r.ref, after)]
    /\ UNCHANGED concat

\* ds.description = desc
AssignDescription(d, desc) ==
    /\ dss[d].cls # "none"
    /\ LET r == DsSetDescription(dss[d], desc)
       IN  /\ dss' = [dss EXCEPT ![d] = r.ds]
           /\ held' = IF held.ds = d /\ r.status = "ok" THEN NoRef ELSE held
           /\ result' = [op |-> "set_description", ds |-> d,
                         status |-> r.status]
    /\ UNCHANGED concat

\* row[field] = value on the row the caller holds
WriteField(field, value) ==
    /\ held.ds \in DsIds
    /\ IF held.live
       THEN /\ dss' = [dss EXCEPT ![held.ds]._description =
                          SetItem(@, field, value)]
            /\ UNCHANGED held
       ELSE /\ held' = [held EXCEPT !.copy = SetItem(@, field, value)]
            /\ UNCHANGED dss
    /\ result' = [op |-> "write", ds |-> held.ds, status |-> "ok",
                  field |-> field, value |-> value]
    /\ UNCHANGED concat

\* the recording held by dataset d gets another sampling rate or channel list
\* (resampling, channel picking, or assignment of ds.raw / ds.windows)
ChangeRecording(d, sfreq, n_channels) ==
    /\ dss[d].cls # "none"
    /\ <<sfreq, n_channels>> #
          <<Recording(dss[d]).sfreq, Recording(dss[d]).n_channels>>
    /\ dss' = IF HasRaw(dss[d])
              THEN [dss EXCEPT ![d].raw.sfreq = sfreq,
                               ![d].raw.n_channels = n_channels]
              ELSE [dss EXCEPT ![d].windows.sfreq = sfreq,
                               ![d].windows.n_channels = n_channels]
    /\ result' = [op |-> "change_recording", ds |-> d, status |-> "ok"]
    /\ UNCHANGED <<held, concat>>

InitLeaf ==
    /\ dss = [d \in DsIds |-> NoDs]
    /\ held = NoRef
    /\ concat = NoConcat
    /\ result = [op |-> "init", status |-> "ok"]
    /\ edits = 0

NextLeaf ==
    \/ \E d \in LeafIds, raw \in LeafRaws, desc \in InputDescriptions,
          tn \in TargetNames : ConstructBase(d, raw, desc, tn) /\ UNCHANGED edits
    \/ \E d \in LeafIds, w \in LeafWindows, desc \in InputDescriptions :
          ConstructWindows(d, w, desc) /\ UNCHANGED edits
    \/ \E d \in LeafIds : ReadDescription(d) /\ UNCHANGED edits
    \/ \E d \in LeafIds, desc \in InputDescriptions : AssignDescription(d, desc) /\ UNCHANGED edits
    \/ \E f \in {"subject", "sfreq", "n_channels"}, v \in ExtVals :
          WriteField(f, v) /\ UNCHANGED edits
    \/ \E d \in LeafIds, sf \in Sfreqs, nc \in ChCounts :
          ChangeRecording(d, sf, nc) /\ UNCHANGED edits

SpecLeaf == InitLeaf /\ [][NextLeaf]_vars

----------------------------------------------------------------------------
(* Operations on a BaseConcatDataset *)

\* sequences over S of length lo..hi
SeqsOf(S, lo, hi) == UNION { [1..n -> S] : n \in lo..hi }

ChildLists == SeqsOf(DsIds, 1, MaxChildren)

\* concat = BaseConcatDataset(list_of_ds)
ConstructConcat(list_of_ds) ==
    /\ concat.cls = "none"
    /\ \A k \in DOMAIN list_of_ds : dss[list_of_ds[k]].cls # "none"
    /\ \E r \in {ConcatInit(list_of_ds, dss)} :
           /\ concat' = r.c
           /\ dss' = r.datasets
           /\ result' = [op |-> "BaseConcatDataset", status |-> r.status,
                         list_of_ds |-> list_of_ds]
    /\ UNCHANGED held

\* len(concat)
ConcatLength ==
    /\ concat.cls # "none"
    /\ result' = [op |-> "len", status |-> "ok", value |-> ConcatLen(concat)]
    /\ UNCHANGED <<dss, held, concat>>

\* concat[idx]
GetItem(idx) ==
    /\ concat.cls # "none"
    /\ \E r \in {ConcatGetItem(concat, idx, dss)} :
           result' = [op |-> "getitem", status |-> r.status, idx |-> idx,
                      child |-> r.child, item |-> r.item]
    /\ UNCHANGED <<dss, held, concat>>

\* concat.split(some_property, split_ids)
Split(some_property, split_ids) ==
    /\ concat.cls # "none"
    /\ \E r \in {ConcatSplit(concat, some_property, split_ids, dss)} :
           /\ concat' = r.c
           /\ dss' = r.datasets
           /\ result' = [op |-> "split", status |-> r.status,
                         some_property |-> some_property,
                         split_ids |-> split_ids,
                         before |-> concat, splits |-> r.splits]
    /\ UNCHANGED held

\* sequences over S whose length is in Ls
SeqsIn(S, Ls) == UNION { [1..n -> S] : n \in Ls }

RECURSIVE TotalLen(_)
TotalLen(g) == IF g = << >> THEN 0 ELSE Len(Head(g)) + TotalLen(Tail(g))

\* index lists a caller passes as split_ids for a concatenation of n
\* children: groups of valid positions naming at most MaxChildren children
\* in all, and lists with an empty group or a position past the end
SplitIdInputs(n) ==
    { g \in SeqsIn(SeqsIn(0..(n - 1), GroupLens), GroupCounts) :
        TotalLen(g) <= MaxChildren }
      \cup { << << >> >>, <<<<n>>>>, <<<<0>>, <<n>>>>, <<<<0>>, << >> >> }

\* split_ids passed together with some_property
BothInputs(n) == { <<<<k>>>> : k \in 0..(n - 1) }

NumChildren == IF concat.cls = "none" THEN 0 ELSE Len(concat.datasets)

----------------------------------------------------------------------------
(* Specifications over a concatenation *)

\* datasets as their constructors leave them
NewBase(d, raw, row, target_name) ==
    BaseInit(d, raw, Series(row), target_name).ds

NewWindows(d, windows, row) == WindowsInit(d, windows, Series(row)).ds

\* indexing: children of every combination of lengths
InitIndex ==
    /\ \/ \E lens \in [DsIds -> TimeCounts] :
            dss = [d \in DsIds |->
                     NewBase(d, [sfreq |-> 100, n_channels |-> 1,
                                 n_times |-> lens[d]],
                             [f \in {"subject"} |-> 1], "subject")]
       \/ \E lens \in [DsIds -> EventCounts] :
            dss = [d \in DsIds |->
                     NewWindows(d, [sfreq |-> 100, n_channels |-> 1,
                                    n_times |-> 1, n_events |-> lens[d]],
                                [f \in {"subject"} |-> 1])]
    /\ held = NoRef
    /\ concat = NoConcat
    /\ result = [op |-> "init", status |-> "ok"]
    /\ edits = 0

NextIndex ==
    \/ \E l \in ChildLists : ConstructConcat(l) /\ UNCHANGED edits
    \/ ConcatLength /\ UNCHANGED edits
    \/ \E idx \in 0..(IF concat.cls = "none" THEN 0 ELSE ConcatLen(concat)) :
          GetItem(idx) /\ UNCHANGED edits

SpecIndex == InitIndex /\ [][NextIndex]_vars

\* splitting by index: child d has length d (raw) or d - 1 (windows)
InitSplit ==
    /\ \/ dss = [d \in DsIds |->
                   NewBase(d, [sfreq |-> 100, n_channels |-> 1, n_times |-> d],
                           [f \in {"subject"} |-> 1], NoName)]
       \/ dss = [d \in DsIds |->
                   NewWindows(d, [sfreq |-> 100, n_channels |-> 1,
                                  n_times |-> 1, n_events |-> d - 1],
                              [f \in {"subject"} |-> 1])]
    /\ held = NoRef
    /\ concat = NoConcat
    /\ result = [op |-> "init", status |-> "ok"]
    /\ edits = 0

NextSplit ==
    \/ \E l \in ChildLists : ConstructConcat(l) /\ UNCHANGED edits
    \/ Split(NoProperty, NoIds) /\ UNCHANGED edits
    \/ \E g \in SplitIdInputs(NumChildren) : Split(NoProperty, Arg(g)) /\ UNCHANGED edits
    \/ \E g \in BothInputs(NumChildren) : Split(Arg("subject"), Arg(g)) /\ UNCHANGED edits

SpecSplit == InitSplit /\ [][NextSplit]_vars

\* table = concat.description
ReadConcatDescription ==
    /\ concat.cls # "none"
    /\ \E r \in {ConcatDescription(concat, dss)} :
           /\ concat' = r.c
           /\ result' = [op |-> "concat_description", status |-> r.status,
                         before |-> concat._description,
                         table |-> IF r.status = "ok" THEN r.c._description
                                   ELSE << >>]
    /\ UNCHANGED <<dss, held>>

\* ds.description[field] = value, for a child or any other dataset
EditDescription(d, field, value) ==
    /\ dss[d].cls # "none"
    /\ \E r \in {DsDescription(d, dss[d])} :
           /\ r.ref.live
           /\ dss' = [dss EXCEPT ![d] =
                        [r.ds EXCEPT !._description = SetItem(@, field, value)]]
    /\ result' = [op |-> "edit_description", status |-> "ok", ds |-> d,
                  field |-> field, value |-> value]
    /\ UNCHANGED <<held, concat>>

\* build, split into singletons, build again from the groups
RoundTrip(list_of_ds) ==
    /\ concat.cls = "none"
    /\ \A k \in DOMAIN list_of_ds : dss[list_of_ds[k]].cls # "none"
    /\ \E r \in {ConcatRoundTrip(list_of_ds, dss)} :
           /\ dss' = r.datasets
           /\ result' = [op |-> "round_trip", status |-> r.status,
                         list_of_ds |-> list_of_ds,
                         original |-> r.original, rebuilt |-> r.rebuilt]
    /\ UNCHANGED <<held, concat>>

\* child lists that name each dataset at most once
DistinctLists ==
    { l \in SeqsOf(DsIds, 1, NumDs) :
        \A a, b \in DOMAIN l : a # b => l[a] # l[b] }

\* columns a caller splits by
SplitProperties == {"subject", "sfreq", "n_times", "age"}

\* rows dataset d is constructed with: its subject, or no subject at all
ChildRows(d) == { [f \in S |-> d] : S \in SUBSET {"subject"} }

\* descriptions: children of one class, of one sampling rate and channel
\* count to begin with, each with its own sample count and subject
Init ==
    /\ \/ \E times \in [DsIds -> TimeCounts],
               rows \in { r \in [DsIds -> UNION { ChildRows(d) : d \in DsIds }] :
                            \A d \in DsIds : r[d] \in ChildRows(d) } :
            dss = [d \in DsIds |->
                     NewBase(d, [sfreq |-> 100, n_channels |-> 1,
                                 n_times |-> times[d]], rows[d], NoName)]
       \/ \E times \in [DsIds -> TimeCounts],
               rows \in { r \in [DsIds -> UNION { ChildRows(d) : d \in DsIds }] :
                            \A d \in DsIds : r[d] \in ChildRows(d) } :
            dss = [d \in DsIds |->
                     NewWindows(d, [sfreq |-> 100, n_channels |-> 1,
                                    n_times |-> times[d], n_events |-> 1],
                                rows[d])]
    /\ held = NoRef
    /\ concat = NoConcat
    /\ result = [op |-> "init", status |-> "ok"]
    /\ edits = 0

Next ==
    \/ \E l \in DistinctLists : ConstructConcat(l) /\ UNCHANGED edits
    \/ ReadConcatDescription /\ UNCHANGED edits
    \/ \E f \in SplitProperties : Split(Arg(f), NoIds) /\ UNCHANGED edits
    \/ \E l \in DistinctLists : RoundTrip(l) /\ UNCHANGED edits
    \/ \E d \in DsIds, v \in Subjects :
          /\ edits < MaxEdits
          /\ EditDescription(d, "subject", v)
          /\ edits' = edits + 1
    \/ \E d \in DsIds, sf \in Sfreqs, nc \in ChCounts :
          /\ edits < MaxEdits
          /\ ChangeRecording(d, sf, nc)
          /\ edits' = edits + 1

Spec == Init /\ [][Next]_vars

----------------------------------------------------------------------------
(* Properties of indexing (SpecIndex) and of splitting by index (SpecSplit) *)

RECURSIVE SumSeq(_)
SumSeq(sq) == IF sq = << >> THEN 0 ELSE Head(sq) + SumSeq(Tail(sq))

\* what the length of a per-recording dataset is to be: the samples of its
\* recording, or the number of its windows
Samples(ds) ==
    IF HasRaw(ds) THEN ds.raw.n_times ELSE ds.windows.n_events

\* the lengths of the children of a concatenation, in child order
ChildLens(c) == [k \in DOMAIN c.datasets |-> Samples(dss[c.datasets[k]])]

\* total length of the children before child k
Offset(lens, k) == SumSeq(SubSeq(lens, 1, k - 1))

\* C1: the length of a concatenation is the sum of its children's lengths;
\* item i, 0 <= i < length, is the item of the one child k whose range of
\* global indices holds i, at local index i minus the lengths of the children
\* before k; item `length` is an IndexError.
C1_Indexing ==
    /\ result.op = "len" => result.value = SumSeq(ChildLens(concat))
    /\ result.op = "getitem" =>
         LET lens == ChildLens(concat)
             InRange(k) == /\ Offset(lens, k) <= result.idx
                           /\ result.idx < Offset(lens, k) + lens[k]
         IN  IF result.idx < SumSeq(lens)
             THEN /\ result.status = "ok"
                  /\ \E k \in DOMAIN lens :
                       /\ InRange(k)
                       /\ \A j \in DOMAIN lens : InRange(j) => j = k
                       /\ result.item =
                            DsGetItem(concat.datasets[k],
                                      dss[concat.datasets[k]],
                                      result.idx - Offset(lens, k))
             ELSE result.status = "IndexError"

\* an item found in a later child at a local index past 0, the children
\* being of different lengths
C1_Witness ==
    /\ result.op = "getitem"
    /\ result.status = "ok"
    /\ result.child >= 1
    /\ result.item.x[2] >= 1
    /\ Cardinality(Range(ChildLens(concat))) > 1

\* C2 as stated: split given neither some_property nor split_ids, and split
\* given both, raises ValueError and returns no mapping.
C2_ExactlyOneArgument ==
    (/\ result.op = "split"
     /\ result.some_property.given = result.split_ids.given)
        => /\ result.status = "ValueError"
           /\ DOMAIN result.splits = {}

\* split_ids names non-empty lists of positions of children of c
ValidGroups(c, g) ==
    \A p \in DOMAIN g : g[p] # << >> /\ ValidInds(c, g[p])

\* C4: split(split_ids=G), G a sequence of non-empty lists of positions,
\* returns a mapping over 0..len(G)-1 whose entry p is a concatenation of
\* exactly the children at the positions of G[p], in that order, of length
\* the sum of their lengths; the children and the length of the original
\* are as before the call.
C4_SplitByIds ==
    (/\ result.op = "split"
     /\ result.split_ids.given
     /\ ~result.some_property.given
     /\ ValidGroups(result.before, result.split_ids.value))
        => LET G == result.split_ids.value
           IN  /\ result.status = "ok"
               /\ DOMAIN result.splits = 0..(Len(G) - 1)
               /\ \A p \in 0..(Len(G) - 1) :
                    /\ result.splits[p].cls = "BaseConcatDataset"
                    /\ result.splits[p].datasets =
                         [a \in DOMAIN G[p + 1] |->
                            result.before.datasets[G[p + 1][a] + 1]]
                    /\ ConcatLen(result.splits[p]) =
                         SumSeq([a \in DOMAIN G[p + 1] |->
                            Samples(dss[result.before.datasets[G[p + 1][a] + 1]])])
               /\ concat.datasets = result.before.datasets
               /\ ConcatLen(concat) = ConcatLen(result.before)
               /\ ConcatLen(concat) = SumSeq(ChildLens(concat))

\* split_ids = [[0, 2], [1]] on three children, not all the same dataset
C4_Witness ==
    /\ result.op = "split"
    /\ result.status = "ok"
    /\ ~result.some_property.given
    /\ result.split_ids = Arg(<<<<0, 2>>, <<1>>>>)
    /\ result.before.datasets = <<1, 2, 1>>
    /\ result.splits[0].datasets = <<1, 1>>

----------------------------------------------------------------------------
(* Properties of the aggregate description and of splitting by a column     *)
(* (checked under Spec)                                                     *)

StampedColumns == {"sfreq", "n_channels", "n_times"}

\* the children of the concatenation, in order
Children == [k \in DOMAIN concat.datasets |-> dss[concat.datasets[k]]]

\* what a read of child k's description returns now
ChildRow(k) == DsDescription(concat.datasets[k], Children[k]).ds._description

\* the row a table stacked and stamped now would hold for dataset d
FreshRow(d) ==
    [f \in {"n_times"} |-> Recording(dss[d]).n_times]
        @@ DsDescription(d, dss[d]).ds._description

SameClass == \A j, k \in DOMAIN Children : HasRaw(Children[j]) = HasRaw(Children[k])

\* the split grouped by a column and returned a mapping
SplitByColumn ==
    /\ result.op = "split"
    /\ result.some_property.given
    /\ ~result.split_ids.given
    /\ result.status = "ok"

\* how often dataset d occurs in a child list
Occurrences(list, d) == Cardinality({ a \in DOMAIN list : list[a] = d })

\* the positions (from 1) of the rows of the aggregate table that hold v in
\* column f
RowsWith(f, v) ==
    { k \in DOMAIN concat._description :
        InRow(concat._description[k], f) /\ concat._description[k][f] = v }

\* C3 as stated: split(some_property=f) on consistent children returns one
\* group per value of column f of the aggregate description, labelled by it;
\* every child is in exactly one group, once; every child of the group
\* labelled v has f = v in its description.
C3_FullCoverByField ==
    SplitByColumn =>
        LET f == result.some_property.value
        IN  /\ DOMAIN result.splits =
                 { concat._description[k][f] :
                     k \in { j \in DOMAIN concat._description :
                               InRow(concat._description[j], f) } }
            /\ \A d \in DsIds :
                 SumSeq([a \in 1..Cardinality(DOMAIN result.splits) |->
                           Occurrences(
                             result.splits[Ordered(DOMAIN result.splits)[a]].datasets,
                             d)])
                   = Occurrences(concat.datasets, d)
            /\ \A v \in DOMAIN result.splits :
                 \A a \in DOMAIN result.splits[v].datasets :
                    LET row == FreshRow(result.splits[v].datasets[a])
                    IN  InRow(row, f) /\ row[f] = v

\* C3 amended: one group per value of column f among the rows of the stored
\* aggregate table; the group labelled v holds, in child order, exactly the
\* children whose row of that table has f = v.  The groups are disjoint and
\* cover the children whose row has a value for f (all of them when no row
\* lacks f); the table's rows are those stacked at construction, so a child
\* edited since then is grouped by its old value.
C3_GroupsOfStoredTable ==
    SplitByColumn =>
        LET f == result.some_property.value
        IN  /\ DOMAIN result.splits =
                 { concat._description[k][f] :
                     k \in { j \in DOMAIN concat._description :
                               InRow(concat._description[j], f) } }
            /\ \A v \in DOMAIN result.splits :
                 /\ result.splits[v].cls = "BaseConcatDataset"
                 /\ result.splits[v].datasets =
                      [a \in 1..Cardinality(RowsWith(f, v)) |->
                         concat.datasets[Ordered(RowsWith(f, v))[a]]]
            /\ \A v, w \in DOMAIN result.splits :
                 v # w => RowsWith(f, v) \cap RowsWith(f, w) = {}
            /\ (\A k \in DOMAIN concat._description :
                   InRow(concat._description[k], f))
                 => UNION { RowsWith(f, v) : v \in DOMAIN result.splits }
                      = DOMAIN concat.datasets

\* a split by subject into two groups of one child each
C3_Witness ==
    /\ SplitByColumn
    /\ result.some_property.value = "subject"
    /\ Cardinality(DOMAIN result.splits) = 2
    /\ Len(concat.datasets) = 2

\* the last operation read the aggregate description of children that are of
\* one class and report more than one sampling rate
ReadWithRateMismatch ==
    /\ result.op = "concat_description"
    /\ SameClass
    /\ Cardinality({ Recording(Children[k]).sfreq : k \in DOMAIN Children }) > 1

\* C5: a read of the aggregate description of children with more than one
\* sampling rate raises the ValueError about sampling rates, whatever else
\* differs, returns no table and leaves the stored table as it was.
C5_RateMismatch ==
    ReadWithRateMismatch =>
        /\ result.status = "ValueError: sampling rates"
        /\ result.table = << >>
        /\ concat._description = result.before

\* a refused read of children that differ in rate, channel count and sample
\* count, over a table not stamped before
C5_Witness ==
    /\ ReadWithRateMismatch
    /\ result.status = "ValueError: sampling rates"
    /\ Cardinality({ Recording(Children[k]).n_channels : k \in DOMAIN Children }) > 1
    /\ Cardinality({ Recording(Children[k]).n_times : k \in DOMAIN Children }) > 1
    /\ \A k \in DOMAIN concat._description :
          ~InRow(concat._description[k], "n_times")

\* the last operation read the aggregate description and got a table
ReadTable == result.op = "concat_description" /\ result.status = "ok"

\* C8 as stated: every read of the aggregate description returns one row per
\* child, in child order, row k holding what child k's description holds now.
C8_RecomputedOnRead ==
    ReadTable =>
        /\ Len(result.table) = Len(concat.datasets)
        /\ \A k \in DOMAIN concat.datasets :
              \A f \in DOMAIN ChildRow(k) :
                  InRow(result.table[k], f) /\ result.table[k][f] = ChildRow(k)[f]

\* C8 amended: the table is stacked once, at construction, from the
\* children's descriptions of that moment; a read returns that table, one row
\* per child in child order, with only the columns sfreq, n_channels and
\* n_times written anew from the children's recordings; every other field
\* keeps its value, whatever was done to the children since.
C8_StackedOnce ==
    /\ [](result.op = "BaseConcatDataset" /\ result.status = "ok" =>
            /\ Len(concat._description) = Len(concat.datasets)
            /\ \A k \in DOMAIN concat.datasets :
                  concat._description[k] = Children[k]._description)
    /\ [](ReadTable =>
            /\ concat._description = result.table
            /\ Len(result.table) = Len(concat.datasets)
            /\ \A k \in DOMAIN concat.datasets :
                  /\ DOMAIN result.table[k] =
                        (DOMAIN result.before[k]) \cup StampedColumns
                  /\ result.table[k]["sfreq"] = Recording(Children[k]).sfreq
                  /\ result.table[k]["n_channels"] =
                        Recording(Children[k]).n_channels
                  /\ result.table[k]["n_times"] = Recording(Children[k]).n_times
                  /\ \A f \in (DOMAIN result.before[k]) \ StampedColumns :
                        result.table[k][f] = result.before[k][f])
    /\ [][concat.cls = "BaseConcatDataset" =>
            /\ concat'.datasets = concat.datasets
            /\ Len(concat'._description) = Len(concat._description)
            /\ \A k \in DOMAIN concat._description :
                  \A f \in (DOMAIN concat._description[k]) \ StampedColumns :
                      /\ InRow(concat'._description[k], f)
                      /\ concat'._description[k][f] = concat._description[k][f]]_vars

\* a read, after a child's subject and recording were changed, whose table
\* shows the old subject and the new sampling rate
C8_Witness ==
    /\ ReadTable
    /\ \E k \in DOMAIN concat.datasets :
          /\ InRow(result.table[k], "subject")
          /\ InRow(Children[k]._description, "subject")
          /\ result.table[k]["subject"] # Children[k]._description["subject"]
    /\ \E k \in DOMAIN concat.datasets :
          /\ InRow(result.before[k], "sfreq")
          /\ result.before[k]["sfreq"] # result.table[k]["sfreq"]

\* C9: a concatenation of n consistent children, split into the n singleton
\* groups [[0], ..., [n-1]] and built again from the groups' children in
\* that order, has the aggregate description of the original: as many rows,
\* in the same order, with the same value in every field.
C9_RoundTrip ==
    (result.op = "round_trip" /\ result.original # << >>) =>
        /\ result.status = "ok"
        /\ Len(result.rebuilt) = Len(result.original)
        /\ \A k \in DOMAIN result.original :
              /\ DOMAIN result.rebuilt[k] = DOMAIN result.original[k]
              /\ \A f \in DOMAIN result.original[k] :
                    result.rebuilt[k][f] = result.original[k][f]
        /\ Len(result.original) = Len(result.list_of_ds)
        /\ \A k \in DOMAIN result.original :
              result.original[k] = dss[result.list_of_ds[k]]._description
                                     @@ [f \in {"n_times"} |->
                                           Recording(dss[result.list_of_ds[k]]).n_times]

\* a round trip over two children of different subjects
C9_Witness ==
    /\ result.op = "round_trip"
    /\ result.status = "ok"
    /\ Len(result.original) = 2
    /\ InRow(result.original[1], "subject")
    /\ InRow(result.original[2], "subject")
    /\ result.original[1]["subject"] # result.original[2]["subject"]
    /\ result.rebuilt = result.original

----------------------------------------------------------------------------
(* Properties of one per-recording dataset (checked under SpecLeaf) *)

\* the last operation constructed a BaseDataset from a Series with a target name
BaseInitWithTarget ==
    /\ result.op = "BaseDataset"
    /\ result.description.type = "Series"
    /\ result.target_name # NoName

\* C6 as stated: construction with target name t raises ValueError and
\* constructs nothing whenever t is not a label of the row the caller passed
\* (sfreq and n_channels included); otherwise it succeeds and target is the
\* passed row's value for t.
C6_TargetInPassedRow ==
    BaseInitWithTarget =>
        IF InRow(result.description.data, result.target_name)
        THEN /\ result.status = "ok"
             /\ result.value.target =
                    <<result.description.data[result.target_name]>>
        ELSE /\ result.status = "ValueError"
             /\ result.value = NoDs
             /\ dss[result.ds] = NoDs

\* C6 amended: for t other than sfreq and n_channels the claim holds as
\* stated; for t = sfreq or t = n_channels construction always succeeds and
\* target is the recording's sampling rate / channel count, whatever the
\* passed row holds.
C6_TargetField ==
    BaseInitWithTarget =>
        IF result.target_name \in DerivedFields
        THEN /\ result.status = "ok"
             /\ dss[result.ds] = result.value
             /\ result.value.target =
                    <<IF result.target_name = "sfreq" THEN result.raw.sfreq
                      ELSE result.raw.n_channels>>
        ELSE IF InRow(result.description.data, result.target_name)
        THEN /\ result.status = "ok"
             /\ dss[result.ds] = result.value
             /\ result.value.target =
                    <<result.description.data[result.target_name]>>
        ELSE /\ result.status = "ValueError"
             /\ result.value = NoDs
             /\ dss[result.ds] = NoDs

\* a construction that was refused for a target name the row lacks
C6_Witness ==
    /\ BaseInitWithTarget
    /\ result.target_name = "age"
    /\ result.status = "ValueError"
    /\ dss[result.ds] = NoDs

\* C7: every read of description on a BaseDataset or WindowsDataset returns
\* a row whose sfreq and n_channels are those of the recording the dataset
\* holds at that read.
C7_DescriptionUpToDate ==
    result.op = "description" =>
        /\ InRow(result.row, "sfreq")
        /\ InRow(result.row, "n_channels")
        /\ result.row["sfreq"] = Recording(dss[result.ds]).sfreq
        /\ result.row["n_channels"] = Recording(dss[result.ds]).n_channels

\* a read that found the stored row out of date and refreshed both fields
C7_Witness ==
    /\ result.op = "description"
    /\ InRow(result.before, "sfreq") /\ InRow(result.before, "n_channels")
    /\ result.before["sfreq"] # result.row["sfreq"]
    /\ result.before["n_channels"] # result.row["n_channels"]
    /\ result.row["sfreq"] = Recording(dss[result.ds]).sfreq

\* the caller's write landed in the row the dataset stores
WriteReachesDataset ==
    result.op = "write" =>
        /\ InRow(dss[result.ds]._description, result.field)
        /\ dss[result.ds]._description[result.field] = result.value

\* labels of a row that hold a value written by the caller (the values of
\* ExtVals come from WriteField only)
WrittenFields(row) == { f \in DOMAIN row : row[f] \in ExtVals }

\* C10 as stated: a value the caller wrote into any field of a row obtained
\* from a read is what every later read shows for that field.
C10_AnyFieldKept ==
    /\ WriteReachesDataset
    /\ result.op = "description" =>
          \A f \in WrittenFields(result.before) :
              result.row[f] = result.before[f]

\* C10 amended: the same for every field other than sfreq and n_channels,
\* which each read overwrites with the recording's values.
C10_LiveRow ==
    /\ WriteReachesDataset
    /\ result.op = "description" =>
          \A f \in (DOMAIN result.before) \ DerivedFields :
              InRow(result.row, f) /\ result.row[f] = result.before[f]

\* a read that shows a value the caller wrote through an earlier read's row
C10_Witness ==
    /\ result.op = "description"
    /\ "subject" \in WrittenFields(result.before)
    /\ result.row["subject"] \in ExtVals

====
